---- MODULE Spec2Model ----
(***************************************************************************)
(* Connection lifecycle of GScoreService (services/gscore-service.ts) and  *)
(* the configuration hooks of index.ts that drive it.                      *)
(*                                                                         *)
(* The event loop is single threaded: every handler below runs to          *)
(* completion, so one action is one handler.  connect() and disconnect()   *)
(* are public methods of the singleton and may be called in any state.     *)
(*                                                                         *)
(* A socket created by connect() keeps its four listeners for as long as   *)
(* it lives, also after this.ws has stopped pointing at it, and a pending  *)
(* setTimeout fires unless clearTimeout is called on its own handle.  The  *)
(* service can tell such objects apart only by whether this.ws or          *)
(* this.reconnectTimer still points at them, so the model keeps the one    *)
(* that is pointed at and counts the others.                               *)
(*                                                                         *)
(* The translation between platform segments and GsCore content items      *)
(* (convertOB11ToGsCoreContent, convertGsCoreToOB11) and the handler of    *)
(* received envelopes (handleGsCoreMessage) are functions of their input;  *)
(* MsgSpec applies them to one frame or event on a freshly opened link.    *)
(*                                                                         *)
(* UrlSpec applies the address derivation of connect() to one configured   *)
(* address, and HandlerSpec applies plugin_onmessage and handleMessage     *)
(* (handlers/message-handler.ts) to one message event, for every loaded    *)
(* configuration of the plugin.                                            *)
(*                                                                         *)
(* BlacklistSpec runs the configuration methods of PluginState             *)
(* (core/state.ts) that write the blacklist, in any order, from the state  *)
(* the constructor leaves.                                                 *)
(***************************************************************************)
EXTENDS Integers, FiniteSets, Sequences, TLC

\* ---------------------------------------------------------------- bounds
MaxSockets == 3       \* socket objects alive at the same time
MaxTimers == 2        \* setTimeout callbacks pending at the same time
MaxAttemptsCfg == 2   \* largest configured maxReconnectAttempts
AttemptsCap == 3      \* largest value of reconnectAttempts explored
MaxInFlight == 1      \* forwards suspended in the get_msg lookup
MaxContent == 2       \* content items of a received envelope
MaxSub == 2           \* sub-items of a node item
MaxSegs == 2          \* segments of a platform message
MaxPayload == 4       \* letters of the payload of a decoded item
MaxQuoted == 2        \* segments of a quoted message
MaxPath == 2          \* path segments of a configured URL
MaxList == 2          \* entries of the blacklist array of a raw configuration

ReadyStates == {"CONNECTING", "OPEN", "CLOSING"}

\* gscoreUrl by what connect() does with it: "ok" builds a socket,
\* "badproto" parses but makes the WebSocket constructor throw (caught),
\* "malformed" makes new URL() throw before the try block.
UrlKinds == {"ok", "badproto", "malformed"}

Configs ==
  [gscoreEnable : BOOLEAN,
   maxReconnectAttempts : 0..MaxAttemptsCfg,
   gscoreUrl : UrlKinds]

\* the keys both hooks compare; gscoreToken and reconnectInterval are not read
\* by the lifecycle, so their values are not kept in config
gscoreKeys ==
  {"gscoreEnable", "maxReconnectAttempts", "gscoreUrl", "gscoreToken",
   "reconnectInterval"}

StoredKeys == {"gscoreEnable", "maxReconnectAttempts", "gscoreUrl"}

\* the groups and users of the platform that are told apart
Groups == {"g1"}
Users == {"u1", "u2"}

\* DEFAULT_CONFIG, the fields the message handler reads.  groupConfigs maps
\* a group to "none" (no entry, or an entry without enabled), "on" or "off";
\* masterQQ is a string of letters (a user, "," or " ").  blacklist is the
\* array config.blacklist points at, DEFAULT_blacklist the array
\* DEFAULT_CONFIG.blacklist points at, and aliased says that the two are one
\* array ({ ...DEFAULT_CONFIG } copies the reference); here the configuration
\* has an array of its own, as after loading a saved file.
DefaultPlugin ==
  [enabled |-> TRUE, masterQQ |-> <<>>, blacklist |-> <<>>,
   groupConfigs |-> [g \in Groups |-> "none"],
   DEFAULT_blacklist |-> <<>>, aliased |-> FALSE]

VARIABLES
  config,             \* pluginState.config (the fields the service reads)
  plugin,             \* pluginState.config (the fields the message handler reads)
  ws,                 \* GScoreService.ws: "null", or the readyState of its socket
  orphans,            \* live sockets this.ws no longer points at, per readyState
  reconnectTimer,     \* GScoreService.reconnectTimer: "null", or a handle that
                      \* is still "pending" or has "fired"
  lostTimers,         \* pending timers whose handle has been overwritten
  isConnecting,       \* GScoreService.isConnecting
  reconnectAttempts,  \* GScoreService.reconnectAttempts
  inflight,           \* forwardMessage calls suspended at await get_msg
  last,               \* what the last handler did (observation only)
  closes,             \* close events since the last open or explicit call
  owed,               \* a close asked for a reconnect that has not started yet
  stopped,            \* disconnect() was the last explicit call on the service
  exhausted           \* scheduleReconnect() gave up at the attempt limit and
                      \* no explicit call has been made since

vars == <<config, plugin, ws, orphans, reconnectTimer, lostTimers, isConnecting,
          reconnectAttempts, inflight, last, closes, owed, stopped,
          exhausted>>

\* ------------------------------------------------- the service as a value
\* The handlers are written as functions on a record of the service's fields
\* and its environment, so that a hook can run disconnect() and connect()
\* back to back inside one handler.
\*   scheds  : calls of scheduleReconnect() made by the running handler
\*   started : setTimeout calls made by the running handler
\*   opens   : sockets constructed by the running handler
\*   ok      : FALSE when the handler needs an object beyond the bounds
St ==
  [ws |-> ws, orphans |-> orphans, reconnectTimer |-> reconnectTimer,
   lostTimers |-> lostTimers, isConnecting |-> isConnecting,
   reconnectAttempts |-> reconnectAttempts,
   scheds |-> 0, started |-> 0, opens |-> 0, ok |-> TRUE]

PendingTimers(st) ==
  (IF st.reconnectTimer = "pending" THEN 1 ELSE 0) + st.lostTimers

OrphanCount(st) ==
  st.orphans["CONNECTING"] + st.orphans["OPEN"] + st.orphans["CLOSING"]

SocketCount(st) == (IF st.ws # "null" THEN 1 ELSE 0) + OrphanCount(st)

\* this.ws = <something else>: the socket it pointed at lives on
DropHandle(st) ==
  IF st.ws = "null" THEN st
  ELSE [st EXCEPT !.orphans[st.ws] = @ + 1, !.ws = "null"]

getStatus(st) ==
  IF st.ws = "OPEN" THEN "connected"
  ELSE IF st.isConnecting \/ st.ws = "CONNECTING" THEN "connecting"
       ELSE "disconnected"

disconnect(st) ==
  LET s1 == IF st.reconnectTimer # "null"
            THEN [st EXCEPT !.reconnectTimer = "null"]
            ELSE st
      s2 == IF s1.ws # "null"
            THEN [s1 EXCEPT !.orphans["CLOSING"] = @ + 1, !.ws = "null"]
            ELSE s1
  IN [s2 EXCEPT !.isConnecting = FALSE, !.reconnectAttempts = 0]

\* this.reconnectTimer = setTimeout(...): an earlier pending timer is not cleared
StartTimer(st) ==
  IF PendingTimers(st) >= MaxTimers THEN [st EXCEPT !.ok = FALSE]
  ELSE [st EXCEPT !.lostTimers = IF st.reconnectTimer = "pending" THEN @ + 1 ELSE @,
                  !.reconnectTimer = "pending",
                  !.started = @ + 1]

scheduleReconnect_OffByOne(st, c) ==
  LET s0 == [st EXCEPT !.scheds = @ + 1] IN
  IF ~c.gscoreEnable THEN s0
  ELSE IF c.maxReconnectAttempts > 0 /\ s0.reconnectAttempts > c.maxReconnectAttempts
  THEN s0
  ELSE StartTimer(s0)

scheduleReconnect(st, c) ==
  LET s0 == [st EXCEPT !.scheds = @ + 1] IN
  IF ~c.gscoreEnable THEN s0
  ELSE IF c.maxReconnectAttempts > 0 /\ s0.reconnectAttempts >= c.maxReconnectAttempts
  THEN s0
  ELSE StartTimer(s0)

connect_NoEnableCheck(st, c) ==
  IF st.ws = "OPEN" \/ st.isConnecting THEN st
  ELSE LET s1 == [st EXCEPT !.isConnecting = TRUE] IN
       CASE c.gscoreUrl = "malformed" -> s1
         [] c.gscoreUrl = "badproto" ->
              scheduleReconnect([s1 EXCEPT !.isConnecting = FALSE], c)
         [] OTHER ->
              IF SocketCount(s1) >= MaxSockets THEN [s1 EXCEPT !.ok = FALSE]
              ELSE [DropHandle(s1) EXCEPT !.ws = "CONNECTING", !.opens = @ + 1]

connect(st, c) ==
  IF ~c.gscoreEnable THEN disconnect(st)
  ELSE IF st.ws = "OPEN" \/ st.isConnecting THEN st
  ELSE LET s1 == [st EXCEPT !.isConnecting = TRUE] IN
       CASE c.gscoreUrl = "malformed" -> s1
         [] c.gscoreUrl = "badproto" ->
              scheduleReconnect([s1 EXCEPT !.isConnecting = FALSE], c)
         [] OTHER ->
              IF SocketCount(s1) >= MaxSockets THEN [s1 EXCEPT !.ok = FALSE]
              ELSE [DropHandle(s1) EXCEPT !.ws = "CONNECTING", !.opens = @ + 1]

\* this.ws.on('open', ...) of a socket; cur: it is the one this.ws points at
onOpen(st, cur) ==
  LET s0 == IF cur THEN [st EXCEPT !.ws = "OPEN"]
            ELSE [st EXCEPT !.orphans["CONNECTING"] = @ - 1, !.orphans["OPEN"] = @ + 1]
      s1 == [s0 EXCEPT !.isConnecting = FALSE, !.reconnectAttempts = 0]
  IN IF s1.reconnectTimer # "null"
     THEN [s1 EXCEPT !.reconnectTimer = "null"]
     ELSE s1

onError_Reconnects(st) == scheduleReconnect(st, config)

\* this.ws.on('error', ...) of a socket: a log line
onError(st) == st

\* the socket is gone once its close event has been delivered
Gone(st, cur, rs) ==
  IF cur THEN [st EXCEPT !.ws = "null"] ELSE [st EXCEPT !.orphans[rs] = @ - 1]

onClose_KeepConnecting(st, cur, rs, c) ==
  scheduleReconnect(DropHandle(Gone(st, cur, rs)), c)

\* this.ws.on('close', ...) of a socket in readyState rs
onClose(st, cur, rs, c) ==
  scheduleReconnect(
    [DropHandle(Gone(st, cur, rs)) EXCEPT !.isConnecting = FALSE], c)

\* the setTimeout callback of scheduleReconnect; cur: this.reconnectTimer
\* still holds its handle
onTimer(st, cur, c) ==
  LET s0 == IF cur THEN [st EXCEPT !.reconnectTimer = "fired"]
            ELSE [st EXCEPT !.lostTimers = @ - 1]
  IN connect([s0 EXCEPT !.reconnectAttempts = @ + 1], c)

\* the handler called scheduleReconnect() and it returned at the attempt limit
GaveUp(st, c) ==
  /\ c.gscoreEnable
  /\ c.maxReconnectAttempts > 0
  /\ st.ok
  /\ st.scheds > 0
  /\ st.started = 0

\* this.ws?.send(...) inside the try of forwardMessage: the ws library
\* transmits on an OPEN socket, throws on a CONNECTING one (the catch logs an
\* error) and discards the frame on a CLOSING one; a null handle sends nothing.
send(st) ==
  CASE st.ws = "null" -> "none"
    [] st.ws = "OPEN" -> "sent"
    [] st.ws = "CONNECTING" -> "threw"
    [] OTHER -> "dropped"

\* ------------------------------------------------- values on the wire
\* A JavaScript string is a sequence of letters.  The letters are the
\* substrings the code searches for ("log_", "link://", "|", ...) and opaque
\* ones, so that startsWith, indexOf and replace are computed on sequences.
S(t) == <<t>>

StartsWith_Exact(s, p) == s = p

StartsWith(s, p) == Len(s) >= Len(p) /\ SubSeq(s, 1, Len(p)) = p

\* A JSON value as the decoder tells them apart: null or absent, a string, or
\* an array of content items.
Nil == [tag |-> "nil", str |-> <<>>, list |-> <<>>]
Str(s) == [tag |-> "str", str |-> s, list |-> <<>>]
List(l) == [tag |-> "list", str |-> <<>>, list |-> l]

Truthy_Always(v) == TRUE

\* JavaScript truthiness: !v is false for "" and null, true for every array
Truthy(v) == v.tag = "list" \/ (v.tag = "str" /\ v.str # <<>>)

\* GsCoreMessage { type, data }; an absent type and "" are both <<>>, the code
\* only ever tests !msg.type.  nil: the array element is JSON null.
Item(type, data) == [nil |-> FALSE, type |-> type, data |-> data]
NullItem == [nil |-> TRUE, type |-> <<>>, data |-> Nil]

\* OB11 segments { type, data: {...} } as convertGsCoreToOB11 builds them
Seg(type, key, s) == [type |-> S(type), data |-> [k \in {key} |-> s]]

\* nickname stands for the source's literal, which is not ASCII
NodeSeg(segs) ==
  [type |-> S("node"),
   data |-> [user_id |-> S("3889929917"), nickname |-> S("fox-assistant"),
             content |-> segs]]

Returned(segs) == [threw |-> FALSE, segs |-> segs]
Threw == [threw |-> TRUE, segs |-> <<>>]

\* the item kinds convertGsCoreToOB11 ignores on purpose
IgnoredTypes ==
  {S("image_size"), S("buttons"), S("template_buttons"),
   S("template_markdown"), S("group")}

\* ------------------------------------------------- convertGsCoreToOB11
RECURSIVE convertGsCoreToOB11(_)
RECURSIVE nodeSegments(_)

nodeSegments_KeepEmpty(subMessagesRaw) ==
  IF subMessagesRaw = <<>> THEN Returned(<<>>)
  ELSE LET ob11Segments == convertGsCoreToOB11(<<Head(subMessagesRaw)>>) IN
       IF ob11Segments.threw THEN Threw
       ELSE LET rest == nodeSegments(Tail(subMessagesRaw)) IN
            IF rest.threw THEN Threw
            ELSE Returned(<<NodeSeg(ob11Segments.segs)>> \o rest.segs)

\* case 'node': one node segment per sub-message that decodes to something
nodeSegments(subMessagesRaw) ==
  IF subMessagesRaw = <<>> THEN Returned(<<>>)
  ELSE LET ob11Segments == convertGsCoreToOB11(<<Head(subMessagesRaw)>>) IN
       IF ob11Segments.threw THEN Threw
       ELSE LET rest == nodeSegments(Tail(subMessagesRaw)) IN
            IF rest.threw THEN Threw
            ELSE Returned((IF Len(ob11Segments.segs) > 0
                           THEN <<NodeSeg(ob11Segments.segs)>> ELSE <<>>)
                          \o rest.segs)

\* String(v) of JavaScript: a string is itself, an array is its elements
\* joined by commas, where an object prints as [object Object] and null as ""
RECURSIVE Join(_)
Join(l) ==
  IF l = <<>> THEN <<>>
  ELSE (IF Head(l).nil THEN <<>> ELSE S("[object Object]"))
       \o (IF Len(l) > 1 THEN S(",") \o Join(Tail(l)) ELSE <<>>)

String(v) == IF v.tag = "list" THEN Join(v.list) ELSE v.str

\* s.indexOf(t): the first position of letter t, counted from 0, or -1
RECURSIVE indexOf(_, _)
indexOf(s, t) ==
  IF s = <<>> THEN -1
  ELSE IF Head(s) = t THEN 0
  ELSE LET i == indexOf(Tail(s), t) IN IF i < 0 THEN -1 ELSE i + 1

StripLink_Keep(s) == s

\* s.replace('link://', '') of a string that starts with link://
StripLink(s) == Tail(s)

\* the file labels stand for the source's literals, which are not ASCII
FileLabel(fileName) == S("[file: ") \o fileName \o S("]")

\* one iteration of the for loop: the segments pushed for msg, or the
\* TypeError that reading msg.type of null raises
convertOne(msg) ==
  IF msg.nil THEN Threw
  ELSE IF msg.type = <<>> \/ msg.data.tag = "nil" THEN Returned(<<>>)
  ELSE CASE msg.type = S("text") ->
              Returned(<<Seg("text", "text", String(msg.data))>>)
         [] msg.type = S("image") ->
              LET imgData == String(msg.data) IN
              IF StartsWith(imgData, S("base64://"))
              THEN Returned(<<Seg("image", "file", imgData)>>)
              ELSE IF StartsWith(imgData, S("link://"))
              THEN Returned(<<Seg("image", "file", StripLink(imgData))>>)
              ELSE Returned(<<Seg("image", "file", imgData)>>)
         [] msg.type = S("at") -> Returned(<<Seg("at", "qq", String(msg.data))>>)
         [] msg.type = S("reply") ->
              Returned(<<Seg("reply", "id", String(msg.data))>>)
         [] msg.type = S("record") ->
              Returned(<<Seg("record", "file", String(msg.data))>>)
         [] msg.type = S("file") ->
              LET fileStr == String(msg.data)
                  sepIdx == indexOf(fileStr, "|")
                  fileName == SubSeq(fileStr, 1, sepIdx)
                  fileContent == SubSeq(fileStr, sepIdx + 2, Len(fileStr))
              IN IF sepIdx > 0
                 THEN IF StartsWith(fileContent, S("link://"))
                      THEN Returned(<<Seg("text", "text",
                                          FileLabel(fileName) \o S(" ")
                                            \o StripLink(fileContent))>>)
                      ELSE Returned(<<Seg("text", "text", FileLabel(fileName))>>)
                 ELSE Returned(<<>>)
         [] msg.type = S("markdown") ->
              Returned(<<Seg("text", "text", String(msg.data))>>)
         [] msg.type = S("node") ->
              IF msg.data.tag = "list" THEN nodeSegments(msg.data.list)
              ELSE Returned(<<>>)
         [] msg.type \in IgnoredTypes -> Returned(<<>>)
         [] OTHER ->
              IF msg.data.tag = "str" /\ Len(msg.data.str) > 0
              THEN Returned(<<Seg("text", "text", msg.data.str)>>)
              ELSE Returned(<<>>)

convertGsCoreToOB11(content) ==
  IF content = <<>> THEN Returned(<<>>)
  ELSE LET first == convertOne(Head(content)) IN
       IF first.threw THEN Threw
       ELSE LET rest == convertGsCoreToOB11(Tail(content)) IN
            IF rest.threw THEN Threw
            ELSE Returned(first.segs \o rest.segs)

\* ------------------------------------------- convertOB11ToGsCoreContent
\* An OB11 segment { type, data }; data maps the keys it has to values.
OB11Seg(type, data) == [type |-> type, data |-> data]

\* OB11Message: message is an array of segments or not an array at all
Event(isArray, message, raw_message) ==
  [isArray |-> isArray, message |-> message, raw_message |-> raw_message]

NoEvent == Event(FALSE, <<>>, <<>>)

\* segData?.key
Get(segData, key) == IF key \in DOMAIN segData THEN segData[key] ELSE Nil

\* a || b
Or(a, b) == IF Truthy(a) THEN a ELSE b

\* the face label stands for the source's literal, which is not ASCII
FaceLabel(id) == S("[face:") \o id \o S("]")

convertSeg_SkipsEmptyText(seg) ==
  LET segData == seg.data IN
  CASE seg.type = S("text") ->
         IF Truthy(Get(segData, "text"))
         THEN <<Item(S("text"), Get(segData, "text"))>> ELSE <<>>
    [] OTHER -> <<>>

\* one iteration of the for loop: the items pushed for seg
convertSeg(seg) ==
  LET segData == seg.data IN
  CASE seg.type = S("text") ->
         <<Item(S("text"), Or(Get(segData, "text"), Str(<<>>)))>>
    [] seg.type = S("image") ->
         <<Item(S("image"),
                Or(Get(segData, "url"), Or(Get(segData, "file"), Str(<<>>))))>>
    [] seg.type = S("at") ->
         <<Item(S("at"), Str(String(Or(Get(segData, "qq"), Str(<<>>)))))>>
    [] seg.type = S("reply") ->
         <<Item(S("reply"), Str(String(Or(Get(segData, "id"), Str(<<>>)))))>>
    [] seg.type = S("face") ->
         <<Item(S("text"),
                Str(FaceLabel(String(Or(Get(segData, "id"), Str(<<>>))))))>>
    [] seg.type = S("record") ->
         <<Item(S("record"),
                Or(Get(segData, "url"), Or(Get(segData, "file"), Str(<<>>))))>>
    [] seg.type = S("file") ->
         <<Item(S("file"),
                Str(String(Or(Get(segData, "name"), Str(S("file")))) \o S("|")
                      \o String(Or(Get(segData, "url"), Str(<<>>)))))>>
    [] OTHER ->
         IF Truthy(Get(segData, "text"))
         THEN <<Item(S("text"), Get(segData, "text"))>> ELSE <<>>

RECURSIVE convertSegs(_)
convertSegs(message) ==
  IF message = <<>> THEN <<>>
  ELSE convertSeg(Head(message)) \o convertSegs(Tail(message))

convertOB11ToGsCoreContent_NoFallback(event) ==
  IF ~event.isArray THEN <<>> ELSE convertSegs(event.message)

convertOB11ToGsCoreContent(event) ==
  IF ~event.isArray
  THEN IF event.raw_message # <<>>
       THEN <<Item(S("text"), Str(event.raw_message))>> ELSE <<>>
  ELSE convertSegs(event.message)

\* ------------------------------------------------- the URL of connect()
\* A URL is a string whose first letter is its scheme and authority
\* ("ws://host:8765"); the letters after it are "/", "?", "&", "token=" and
\* opaque names and values.
Last(s) == s[Len(s)]

\* s.includes(t)
includes(s, t) ==
  \E i \in 1..(Len(s) - Len(t) + 1) : SubSeq(s, i, i + Len(t) - 1) = t

\* new URL(url) of a well-formed URL: what precedes the first ? after the
\* authority is the path, what follows it is the query
pathname(url) ==
  IF indexOf(url, "?") < 0 THEN Tail(url) ELSE SubSeq(url, 2, indexOf(url, "?"))

search(url) ==
  IF indexOf(url, "?") < 0 THEN <<>>
  ELSE SubSeq(url, indexOf(url, "?") + 2, Len(url))

\* searchParams.has('token'): a parameter of the query is named token
hasToken(query) == \E i \in 1..Len(query) : query[i] = "token="

\* searchParams.append('token', token)
appendToken(query, token) ==
  (IF query = <<>> THEN <<>> ELSE query \o S("&")) \o S("token=") \o token

\* toString() of the parsed URL: the empty path of a ws URL is written as /
toString(authority, path, query) ==
  S(authority) \o (IF path = <<>> THEN S("/") ELSE path)
    \o (IF query = <<>> THEN <<>> ELSE S("?") \o query)

\* the string connect() hands to the WebSocket constructor
wsUrl(gscoreUrl, gscoreToken) ==
  LET url0 == IF gscoreUrl # <<>> THEN gscoreUrl ELSE S("ws://localhost:8765")
      url1 == IF Last(url0) = "/" THEN SubSeq(url0, 1, Len(url0) - 1) ELSE url0
      url == IF ~includes(url1, <<"/", "ws", "/">>)
             THEN url1 \o <<"/", "ws", "/", "napcat">> ELSE url1
      token == gscoreToken
  IN toString(Head(url), pathname(url),
              IF token # <<>> /\ ~hasToken(search(url))
              THEN appendToken(search(url), token) ELSE search(url))

\* ------------------------------------------------- forwardMessage
\* What get_msg gave back: the call was rejected (or ctx was null), or it
\* resolved to a value that is null, has no message array, or has one.
ReplyMsg(ok, isArray, message) == [ok |-> ok, isArray |-> isArray, message |-> message]
NoReplyMsg == ReplyMsg(FALSE, FALSE, <<>>)

\* event.message.find((seg) => seg.type === 'reply'): its index, 0 for none
RECURSIVE findReply(_)
findReply(message) ==
  IF message = <<>> THEN 0
  ELSE IF Head(message).type = S("reply") THEN 1
  ELSE LET i == findReply(Tail(message)) IN IF i = 0 THEN 0 ELSE i + 1

\* replySeg.data?.id of the segment found, undefined without one
replyId(event) ==
  IF event.isArray /\ findReply(event.message) > 0
  THEN Get(event.message[findReply(event.message)].data, "id")
  ELSE Nil

\* s.trim(): the letter " " is white space
RECURSIVE TrimStart(_)
TrimStart(s) == IF s # <<>> /\ Head(s) = " " THEN TrimStart(Tail(s)) ELSE s

RECURSIVE TrimEnd(_)
TrimEnd(s) ==
  IF s # <<>> /\ s[Len(s)] = " " THEN TrimEnd(SubSeq(s, 1, Len(s) - 1)) ELSE s

trim_Not(s) == s

trim(s) == TrimEnd(TrimStart(s))

\* the loop over replyMsg.message: the image items it pushes
RECURSIVE quotedImages(_)
quotedImages(message) ==
  IF message = <<>> THEN <<>>
  ELSE LET seg == Head(message)
           url == Or(Get(seg.data, "url"), Get(seg.data, "file"))
       IN (IF seg.type = S("image") /\ url.tag = "str" /\ trim(url.str) # <<>>
           THEN <<Item(S("image"), Str(trim(url.str)))>> ELSE <<>>)
          \o quotedImages(Tail(message))

\* the envelope forwardMessage hands to this.ws.send on an open link, or
\* nothing; of the fields of messageReceive only user_type and content are
\* kept, the others copy fields of the event
Sent(user_type, content) == [sent |-> TRUE, user_type |-> user_type, content |-> content]
NotSent == [sent |-> FALSE, user_type |-> "", content |-> <<>>]

messageReceive(message_type, event, replyMsg) ==
  IF message_type \notin {"group", "private"} THEN NotSent
  ELSE LET content == convertOB11ToGsCoreContent(event)
           userType == IF message_type = "group" THEN "group" ELSE "direct"
       IN IF Truthy(replyId(event)) /\ replyMsg.ok /\ replyMsg.isArray
          THEN Sent(userType, content \o quotedImages(replyMsg.message))
          ELSE Sent(userType, content)

\* ------------------------------------------------- handleGsCoreMessage
\* GsCoreMessageSend { target_type, target_id, content }
Envelope(target_type, target_id, content) ==
  [target_type |-> target_type, target_id |-> target_id, content |-> content]

\* ctx.actions.call('send_msg', params, ...)
SendMsg(message_type, key, target_id, message) ==
  [action |-> "send_msg", message_type |-> message_type,
   target |-> [k \in {key} |-> target_id], message |-> message]

\* what a run of the handler leaves behind
\*   calls : the platform calls it issued, in order
\*   esc   : an exception left it uncaught (for the async
\*           handleGsCoreMessage: the promise it returned was rejected)
Outcome(calls, esc) == [calls |-> calls, esc |-> esc]

handleGsCoreMessage_SendsEmpty(msgSend) ==
  LET target_type == msgSend.target_type
      target_id == msgSend.target_id
      content == msgSend.content
      firstMsg == content.list[1]
      ob11Message == convertGsCoreToOB11(content.list)
  IN IF ~Truthy(content) \/ Len(content.list) = 0 THEN Outcome(<<>>, FALSE)
     ELSE IF firstMsg.nil THEN Outcome(<<>>, TRUE)
     ELSE IF firstMsg.type # <<>> /\ StartsWith(firstMsg.type, S("log_"))
     THEN Outcome(<<>>, FALSE)
     ELSE IF ~Truthy(target_id) THEN Outcome(<<>>, FALSE)
     ELSE IF ob11Message.threw THEN Outcome(<<>>, FALSE)
     ELSE IF target_type = Str(S("direct"))
     THEN Outcome(<<SendMsg("private", "user_id", target_id.str,
                            ob11Message.segs)>>, FALSE)
     ELSE Outcome(<<SendMsg("group", "group_id", target_id.str,
                            ob11Message.segs)>>, FALSE)

\* The function runs synchronously up to the await of the send_msg call; a
\* rejection of that call is caught by the try block and only logged.
handleGsCoreMessage(msgSend) ==
  LET target_type == msgSend.target_type
      target_id == msgSend.target_id
      content == msgSend.content
      firstMsg == content.list[1]
      ob11Message == convertGsCoreToOB11(content.list)
  IN IF ~Truthy(content) \/ Len(content.list) = 0 THEN Outcome(<<>>, FALSE)
     ELSE IF firstMsg.nil THEN Outcome(<<>>, TRUE)
     ELSE IF firstMsg.type # <<>> /\ StartsWith(firstMsg.type, S("log_"))
     THEN Outcome(<<>>, FALSE)
     ELSE IF ~Truthy(target_id) THEN Outcome(<<>>, FALSE)
     ELSE IF ob11Message.threw THEN Outcome(<<>>, FALSE)
     ELSE IF Len(ob11Message.segs) = 0 THEN Outcome(<<>>, FALSE)
     ELSE IF target_type = Str(S("direct"))
     THEN Outcome(<<SendMsg("private", "user_id", target_id.str,
                            ob11Message.segs)>>, FALSE)
     ELSE Outcome(<<SendMsg("group", "group_id", target_id.str,
                            ob11Message.segs)>>, FALSE)

\* A frame as JSON.parse sees it: text that is not JSON, the JSON value null,
\* or a JSON object.
Frame(json, msgSend) == [json |-> json, msgSend |-> msgSend]
NoFrame == Frame("none", Envelope(Nil, Nil, Nil))
BadJson == Frame("invalid", Envelope(Nil, Nil, Nil))
NullJson == Frame("null", Envelope(Nil, Nil, Nil))

\* this.ws.on('message', ...): JSON.parse and the debug line that reads
\* msgSend.target_type are inside the try; handleGsCoreMessage is called
\* there too, but its promise is not awaited
onMessage_NoTry(frame) ==
  IF frame.json = "invalid" THEN Outcome(<<>>, TRUE)
  ELSE IF frame.json = "null" THEN Outcome(<<>>, FALSE)
  ELSE handleGsCoreMessage(frame.msgSend)

onMessage(frame) ==
  IF frame.json = "invalid" THEN Outcome(<<>>, FALSE)
  ELSE IF frame.json = "null" THEN Outcome(<<>>, FALSE)
  ELSE handleGsCoreMessage(frame.msgSend)

\* ------------------------------------------------- PluginState
\* The methods of PluginState as functions of the fields in plugin (p).
InList(list, x) == \E i \in 1..Len(list) : list[i] = x

isBlacklisted_Never(p, userId) == FALSE

isBlacklisted(p, userId) == InList(p.blacklist, userId)

\* a change made in place to the array config.blacklist points at, seen
\* through DEFAULT_CONFIG.blacklist as well when that is the same array
mutate(p, list) ==
  [p EXCEPT !.blacklist = list,
            !.DEFAULT_blacklist = IF p.aliased THEN list ELSE @]

addToBlacklist(p, userId) ==
  IF ~InList(p.blacklist, userId)
  THEN mutate(p, Append(p.blacklist, userId)) ELSE p

\* splice(index, 1) at the first occurrence
removeFromBlacklist(p, userId) ==
  LET index == indexOf(p.blacklist, userId) IN
  IF index # -1
  THEN mutate(p, SubSeq(p.blacklist, 1, index)
                    \o SubSeq(p.blacklist, index + 2, Len(p.blacklist)))
  ELSE p

updateGroupConfig(p, groupId, enabled) ==
  [p EXCEPT !.groupConfigs[groupId] = IF enabled THEN "on" ELSE "off"]

isGroupEnabled(p, groupId) == p.groupConfigs[groupId] # "off"

\* { ...DEFAULT_CONFIG, groupConfigs: {} }: the default values, a groupConfigs
\* object of its own, and the blacklist array of DEFAULT_CONFIG itself
DefaultCopy(p) ==
  [enabled |-> TRUE, masterQQ |-> <<>>, blacklist |-> p.DEFAULT_blacklist,
   groupConfigs |-> [g \in Groups |-> "none"],
   DEFAULT_blacklist |-> p.DEFAULT_blacklist, aliased |-> TRUE]

\* an entry of a raw blacklist array: a string, or a value of another type
RawItem(isString, value) == [isString |-> isString, value |-> value]

\* raw.blacklist: an array of entries, or anything else (items is <<>> then)
RawList(isArray, items) == [isArray |-> isArray, items |-> items]

\* a raw configuration value: an object with well-typed enabled, masterQQ and
\* groupConfigs and any blacklist, or a value that is not an object
RawConfig(isObject, enabled, masterQQ, groupConfigs, blacklist) ==
  [isObject |-> isObject, enabled |-> enabled, masterQQ |-> masterQQ,
   groupConfigs |-> groupConfigs, blacklist |-> blacklist]

\* raw.blacklist.filter(item => typeof item === 'string')
RECURSIVE filterStrings(_)
filterStrings(items) ==
  IF items = <<>> THEN <<>>
  ELSE (IF Head(items).isString THEN <<Head(items).value>> ELSE <<>>)
         \o filterStrings(Tail(items))

sanitizeConfig(p, raw) ==
  IF ~raw.isObject THEN DefaultCopy(p)
  ELSE [DefaultCopy(p) EXCEPT
          !.enabled = raw.enabled,
          !.masterQQ = raw.masterQQ,
          !.groupConfigs = raw.groupConfigs,
          !.blacklist = IF raw.blacklist.isArray
                        THEN filterStrings(raw.blacklist.items) ELSE @,
          !.aliased = ~raw.blacklist.isArray]

\* the configuration file as loadConfig finds it
ConfigFile(exists, parses, raw) == [exists |-> exists, parses |-> parses, raw |-> raw]

loadConfig(p, file) ==
  IF file.exists /\ file.parses THEN sanitizeConfig(p, file.raw)
  ELSE DefaultCopy(p)

replaceConfig(p, c) == sanitizeConfig(p, c)

\* ------------------------------------------------- handleMessage
\* OB11Message as handleMessage reads it: group_id is "" when absent, role is
\* sender.role, at lists the qq of the at segments of the message
MsgEvent(raw_message, message_type, group_id, user_id, role, at) ==
  [raw_message |-> raw_message, message_type |-> message_type,
   group_id |-> group_id, user_id |-> user_id, role |-> role, at |-> at]

NoMsgEvent == MsgEvent(<<>>, "", "", "", "", <<>>)

\* commandPrefix and the command words stand for the source's literals, which
\* are not ASCII; a raw message is the prefix followed by words and blanks
prefix == S("#gs")

checkPermission(p, event) ==
  LET masterQQ == p.masterQQ IN
  IF masterQQ # <<>> /\ Len(trim(masterQQ)) > 0
  THEN S(event.user_id) = trim(masterQQ)
  ELSE IF event.message_type # "group" THEN TRUE
  ELSE event.role = "admin" \/ event.role = "owner"

\* the qq of the at segments, without "all"
RECURSIVE extractAtTargets(_)
extractAtTargets(at) ==
  IF at = <<>> THEN <<>>
  ELSE (IF Head(at) # "all" THEN <<Head(at)>> ELSE <<>>) \o extractAtTargets(Tail(at))

\* the loop of the block command
RECURSIVE blockAll(_, _)
blockAll(p, atTargets) ==
  IF atTargets = <<>> THEN p
  ELSE blockAll(IF isBlacklisted(p, Head(atTargets)) THEN p
                ELSE addToBlacklist(p, Head(atTargets)),
                Tail(atTargets))

\* the loop of the unblock command
RECURSIVE unblockAll(_, _)
unblockAll(p, atTargets) ==
  IF atTargets = <<>> THEN p
  ELSE unblockAll(IF ~isBlacklisted(p, Head(atTargets)) THEN p
                  ELSE removeFromBlacklist(p, Head(atTargets)),
                  Tail(atTargets))

\* what a run of handleMessage leaves behind: the fields of the plugin, the
\* replies it sent (by kind) and whether it called forwardMessage
Handled(p, replies, forwarded) == [p |-> p, replies |-> replies, forwarded |-> forwarded]

\* the first word after the prefix
subCommand(rawMessage) ==
  LET args == TrimStart(SubSeq(rawMessage, Len(prefix) + 1, Len(rawMessage))) IN
  IF args = <<>> THEN "" ELSE Head(args)

handleMessage(p, c, event) ==
  LET rawMessage == event.raw_message
      messageType == event.message_type
      groupId == event.group_id
      userId == event.user_id
      atTargets == extractAtTargets(event.at)
      refused == IF groupId = "" THEN <<"not-in-group">>
                 ELSE IF ~checkPermission(p, event) THEN <<"denied">>
                 ELSE <<>>
  IN IF rawMessage = prefix \o S("group-on") \/ rawMessage = prefix \o S("group-enable")
     THEN IF refused # <<>> THEN Handled(p, refused, FALSE)
          ELSE Handled(updateGroupConfig(p, groupId, TRUE), <<"on">>, FALSE)
     ELSE IF rawMessage = prefix \o S("group-off")
               \/ rawMessage = prefix \o S("group-disable")
     THEN IF refused # <<>> THEN Handled(p, refused, FALSE)
          ELSE Handled(updateGroupConfig(p, groupId, FALSE), <<"off">>, FALSE)
     ELSE IF StartsWith(rawMessage, prefix \o S("block"))
     THEN IF refused # <<>> THEN Handled(p, refused, FALSE)
          ELSE IF Len(atTargets) = 0 THEN Handled(p, <<"nobody">>, FALSE)
          ELSE Handled(blockAll(p, atTargets), <<"blocked">>, FALSE)
     ELSE IF StartsWith(rawMessage, prefix \o S("unblock"))
     THEN IF refused # <<>> THEN Handled(p, refused, FALSE)
          ELSE IF Len(atTargets) = 0 THEN Handled(p, <<"nobody">>, FALSE)
          ELSE Handled(unblockAll(p, atTargets), <<"unblocked">>, FALSE)
     ELSE IF isBlacklisted(p, userId) THEN Handled(p, <<>>, FALSE)
     ELSE LET forwarded ==
                /\ c.gscoreEnable
                /\ \/ messageType = "group" /\ groupId # "" /\ isGroupEnabled(p, groupId)
                   \/ messageType = "private"
          IN IF ~StartsWith(rawMessage, prefix) THEN Handled(p, <<>>, forwarded)
             ELSE IF subCommand(rawMessage) = "help" THEN Handled(p, <<"help">>, forwarded)
             ELSE IF subCommand(rawMessage) = "status"
             THEN Handled(p, <<"status">>, forwarded)
             ELSE Handled(p, <<>>, forwarded)

\* ------------------------------------------------- received frames
SeqsUpTo(set, n) == UNION {[1..k -> set] : k \in 0..n}

\* items without sub-items: two texts, a text without payload, a log line,
\* an ignored kind, a kind the decoder does not know, and JSON null
LeafItems ==
  {Item(S("text"), Str(S("a"))), Item(S("text"), Str(S("b"))),
   Item(S("text"), Nil), Item(<<"log_", "error">>, Str(S("a"))),
   Item(S("image_size"), Str(S("a"))), Item(S("poke"), Str(S("a"))),
   NullItem}

\* node items: their sub-items are leaf items or one nested node
NodeItems ==
  {Item(S("node"), List(l)) :
     l \in SeqsUpTo(LeafItems \cup {Item(S("node"), List(<<Item(S("text"), Str(S("a"))),
                                                          Item(S("text"), Str(S("b")))>>))},
                    MaxSub)}

\* up to MaxContent leaf items, or a node item alone, before or after one
\* leaf item
Contents ==
  SeqsUpTo(LeafItems, MaxContent)
    \cup {<<n>> : n \in NodeItems}
    \cup {<<n, l>> : n \in NodeItems, l \in LeafItems}
    \cup {<<l, n>> : n \in NodeItems, l \in LeafItems}

TargetTypes == {Nil, Str(S("direct")), Str(S("group")), Str(S("channel"))}
TargetIds == {Nil, Str(<<>>), Str(S("10001"))}

Frames ==
  {BadJson, NullJson}
    \cup {Frame("object", Envelope(tt, ti, Nil)) : tt \in TargetTypes, ti \in TargetIds}
    \cup {Frame("object", Envelope(tt, ti, List(c))) :
            tt \in TargetTypes, ti \in TargetIds, c \in Contents}

\* ------------------------------------------------- platform events
Texts == {<<>>, S("a"), S("b"), <<"link://", "a">>, <<"a", "|", "b">>}

TextSegs == {OB11Seg(S("text"), [text |-> Str(t)]) : t \in Texts}

\* segments of other kinds, a text segment without text and an unknown kind
OtherSegs ==
  {OB11Seg(S("image"), [url |-> Str(S("u"))]),
   OB11Seg(S("at"), [qq |-> Str(S("10001"))]),
   OB11Seg(S("face"), [id |-> Str(S("1"))]),
   OB11Seg(S("text"), <<>>),
   OB11Seg(S("json"), [text |-> Str(S("a"))]),
   OB11Seg(S("json"), [data |-> Str(S("a"))])}

Events ==
  {Event(TRUE, m, S("raw")) : m \in SeqsUpTo(TextSegs \cup OtherSegs, MaxSegs)}
    \cup {Event(FALSE, <<>>, r) : r \in {<<>>, S("hello")}}

\* ------------------------------------------------- configured URLs
RECURSIVE Slashed(_)
Slashed(names) ==
  IF names = <<>> THEN <<>> ELSE <<"/", Head(names)>> \o Slashed(Tail(names))

\* paths of up to MaxPath segments, with and without a slash at the end
Paths ==
  {Slashed(names) \o end :
     names \in SeqsUpTo({"ws", "napcat", "x"}, MaxPath), end \in {<<>>, S("/")}}

\* no query, and queries with and without a token parameter
Queries ==
  {<<>>, <<"?", "a=1">>, <<"?", "token=", "old">>,
   <<"?", "a=1", "&", "token=", "old">>, <<"?", "token=", "old", "&", "a=1">>}

GscoreUrls ==
  {<<>>} \cup {S("ws://host:8765") \o p \o q : p \in Paths, q \in Queries}

GscoreTokens == {<<>>, S("new")}

\* ------------------------------------------------- message events
\* masterQQ: empty, blank, one user, one user between blanks, two users
MasterQQs == {<<>>, S(" "), S("u1"), <<" ", "u1", " ">>, <<"u1", ",", "u2">>}

Blacklists == {<<>>, <<"u1">>, <<"u2">>, <<"u1", "u2">>, <<"u2", "u1">>}

\* the fields as loadConfig can leave them, and the plugin switched off
PluginStates ==
  [enabled : {TRUE}, masterQQ : MasterQQs, blacklist : Blacklists,
   groupConfigs : [Groups -> {"none", "on", "off"}],
   DEFAULT_blacklist : {<<>>}, aliased : {FALSE}]
    \cup {[DefaultPlugin EXCEPT !.enabled = FALSE]}

Roles == {"member", "admin", "owner"}

\* where a message comes from: a group, a private chat, a group event
\* without group_id, a guild
Origins == {<<"group", "g1">>, <<"private", "">>, <<"group", "">>, <<"guild", "g1">>}

AtLists == {<<>>, <<"u1">>, <<"u2">>, <<"u2", "u1">>, <<"u1", "u1">>, <<"all">>}

MsgEvents ==
  {MsgEvent(r, o[1], o[2], u, "member", <<>>) :
     r \in {S("hello"), <<"#gs", " ", "help">>, <<"#gs", "status">>, <<"#gs", "x">>},
     o \in Origins, u \in Users}
    \cup {MsgEvent(<<"#gs", w>>, o[1], o[2], u, role, <<>>) :
            w \in {"group-on", "group-enable", "group-off", "group-disable"},
            o \in {<<"group", "g1">>, <<"private", "">>}, u \in Users, role \in Roles}
    \cup {MsgEvent(<<"#gs", w>>, o[1], o[2], u, role, at) :
            w \in {"block", "unblock"},
            o \in {<<"group", "g1">>, <<"private", "">>}, u \in Users, role \in Roles,
            at \in AtLists}

\* ------------------------------------------------- forwarded events
\* messages with a reply segment: alone, among other segments, twice, and
\* with an id that is empty or absent
ReplySeg(id) == OB11Seg(S("reply"), [id |-> id])

ReplyEvents ==
  {Event(TRUE, m, S("raw")) :
     m \in {<<ReplySeg(Str(S("7")))>>,
            <<OB11Seg(S("text"), [text |-> Str(S("a"))]), ReplySeg(Str(S("7")))>>,
            <<ReplySeg(Str(S("7"))), OB11Seg(S("image"), [url |-> Str(S("u"))])>>,
            <<ReplySeg(Str(<<>>)), ReplySeg(Str(S("7")))>>,
            <<ReplySeg(Str(<<>>))>>,
            <<OB11Seg(S("reply"), <<>>)>>}}

\* segments of a quoted message: images whose address is in url or in file,
\* needs trimming, is blank, is missing or is not a string, and a text
QuotedSegs ==
  {OB11Seg(S("image"), [url |-> Str(S("u"))]),
   OB11Seg(S("image"), [url |-> Str(<<" ", "v", " ">>)]),
   OB11Seg(S("image"), [url |-> Str(<<>>), file |-> Str(S("f"))]),
   OB11Seg(S("image"), [url |-> Str(S(" ")), file |-> Str(S("f"))]),
   OB11Seg(S("image"), <<>>),
   OB11Seg(S("image"), [url |-> List(<<>>)]),
   OB11Seg(S("text"), [text |-> Str(S("a"))])}

ReplyMsgs ==
  {NoReplyMsg, ReplyMsg(TRUE, FALSE, <<>>)}
    \cup {ReplyMsg(TRUE, TRUE, m) : m \in SeqsUpTo(QuotedSegs, MaxQuoted)}

MessageTypes == {"group", "private", "guild"}

\* every event with a failed lookup, and the events with a reply segment
\* with every outcome of the lookup
ForwardInputs ==
  {<<mt, e, NoReplyMsg>> : mt \in MessageTypes, e \in Events \cup ReplyEvents}
    \cup {<<mt, e, r>> : mt \in {"group", "private"}, e \in ReplyEvents, r \in ReplyMsgs}

\* ------------------------------------------------- decoded items
\* payloads of image and file items: the prefixes and the separator the
\* decoder looks for, and one opaque letter
PayloadLetters == {"n", "|", "link://", "base64://", "http"}

Payloads == SeqsUpTo(PayloadLetters, MaxPayload)

\* one image or file item with a string payload or none
DecodeInputs ==
  {<<Item(S(t), Str(p))>> : t \in {"image", "file"}, p \in Payloads}
    \cup {<<Item(S(t), Nil)>> : t \in {"image", "file"}}

\* the frames delivered while the connection lifecycle is explored
SampleFrames ==
  {BadJson,
   Frame("object", Envelope(Str(S("direct")), Str(S("10001")),
                            List(<<Item(S("text"), Str(S("a")))>>)))}

\* -------------------------------------------------------------- plumbing
Apply(st) ==
  /\ st.ok
  /\ ws' = st.ws
  /\ orphans' = st.orphans
  /\ reconnectTimer' = st.reconnectTimer
  /\ lostTimers' = st.lostTimers
  /\ isConnecting' = st.isConnecting
  /\ reconnectAttempts' = st.reconnectAttempts

\* cur: the event came from the socket this.ws pointed at
\* frame, calls, esc: the frame a message handler was given, the platform
\* calls it issued and whether an exception escaped it
\* event, content: the event given to convertOB11ToGsCoreContent and its result
\* items, decoded: the items given to convertGsCoreToOB11 and its result
\* message_type, replyMsg, envelope: the kind of the event given to
\* forwardMessage, what its get_msg call gave back and the envelope it sent
\* gscoreUrl, gscoreToken, wsUrl: the configured address and token connect()
\* read and the address it opened
\* msg, replies, forwarded: the event given to handleMessage, the replies it
\* sent and whether it called forwardMessage
\* userId: the user given to addToBlacklist or removeFromBlacklist
Obs(op, st, cur, sent, err) ==
  [op |-> op, scheds |-> st.scheds, started |-> st.started, opens |-> st.opens,
   cur |-> cur, sent |-> sent, err |-> err,
   frame |-> NoFrame, calls |-> <<>>, esc |-> FALSE,
   event |-> NoEvent, content |-> <<>>,
   items |-> <<>>, decoded |-> Returned(<<>>),
   message_type |-> "", replyMsg |-> NoReplyMsg, envelope |-> NotSent,
   gscoreUrl |-> <<>>, gscoreToken |-> <<>>, wsUrl |-> <<>>,
   msg |-> NoMsgEvent, replies |-> <<>>, forwarded |-> FALSE,
   userId |-> ""]

ServiceUnchanged ==
  UNCHANGED <<ws, orphans, reconnectTimer, lostTimers, isConnecting, reconnectAttempts>>

Bump(n) == IF n < MaxAttemptsCfg + 2 THEN n + 1 ELSE n

Init ==
  /\ config \in Configs
  /\ plugin = DefaultPlugin
  /\ ws = "null"
  /\ orphans = [rs \in ReadyStates |-> 0]
  /\ reconnectTimer = "null"
  /\ lostTimers = 0
  /\ isConnecting = FALSE
  /\ reconnectAttempts = 0
  /\ inflight = 0
  /\ last = Obs("init", St, FALSE, 0, 0)
  /\ closes = 0
  /\ owed = FALSE
  /\ stopped = FALSE
  /\ exhausted = FALSE

\* GScoreService.getInstance().connect(), as plugin_init calls it
Connect ==
  LET st == connect(St, config) IN
  /\ Apply(st)
  /\ last' = Obs("connect", st, FALSE, 0, 0)
  /\ closes' = 0
  /\ owed' = FALSE
  /\ stopped' = FALSE
  /\ exhausted' = GaveUp(connect(St, config), config)
  /\ UNCHANGED <<config, plugin, inflight>>

\* GScoreService.getInstance().disconnect(), as plugin_cleanup calls it
Disconnect ==
  LET st == disconnect(St) IN
  /\ Apply(st)
  /\ last' = Obs("disconnect", st, FALSE, 0, 0)
  /\ closes' = 0
  /\ owed' = FALSE
  /\ stopped' = TRUE
  /\ exhausted' = FALSE
  /\ UNCHANGED <<config, plugin, inflight>>

TransportOpen(cur) ==
  /\ IF cur THEN ws = "CONNECTING" ELSE orphans["CONNECTING"] > 0
  /\ LET st == onOpen(St, cur) IN
     /\ Apply(st)
     /\ last' = Obs("open", st, cur, 0, 0)
  /\ closes' = 0
  /\ UNCHANGED <<config, plugin, inflight, owed, stopped, exhausted>>

TransportClose(cur, rs) ==
  /\ IF cur THEN ws = rs ELSE orphans[rs] > 0
  /\ LET st == onClose(St, cur, rs, config) IN
     /\ Apply(st)
     /\ last' = Obs("close", st, cur, 0, 0)
  /\ closes' = Bump(closes)
  /\ owed' = (owed \/ (config.gscoreEnable /\ config.maxReconnectAttempts = 0
                        /\ config.gscoreUrl = "ok"))
  /\ exhausted' = (exhausted \/ GaveUp(onClose(St, cur, rs, config), config))
  /\ UNCHANGED <<config, plugin, inflight, stopped>>

TimerFire(cur) ==
  /\ IF cur THEN reconnectTimer = "pending" ELSE lostTimers > 0
  /\ reconnectAttempts < AttemptsCap
  /\ LET st == onTimer(St, cur, config) IN
     /\ Apply(st)
     /\ last' = Obs("timer", st, cur, 0, 0)
     /\ owed' = (owed /\ st.opens = 0)
  /\ exhausted' = (exhausted \/ GaveUp(onTimer(St, cur, config), config))
  /\ UNCHANGED <<config, plugin, inflight, closes, stopped>>

\* a socket reports an error: the one this.ws points at, or one that was
\* replaced or is being closed
TransportError(cur) ==
  /\ IF cur THEN ws # "null" ELSE OrphanCount(St) > 0
  /\ LET st == onError(St) IN
     /\ Apply(st)
     /\ last' = Obs("error", st, cur, 0, 0)
  /\ UNCHANGED <<config, plugin, inflight, closes, owed, stopped, exhausted>>

\* a frame arrives on a socket that still has its message listener: the one
\* this.ws points at, or one that was replaced or is being closed
TransportMessage(cur, frame) ==
  /\ IF cur THEN ws = "OPEN" ELSE orphans["OPEN"] + orphans["CLOSING"] > 0
  /\ LET out == onMessage(frame) IN
     last' = [Obs("message", St, cur, 0, 0) EXCEPT
                !.frame = frame, !.calls = out.calls, !.esc = out.esc]
  /\ ServiceUnchanged
  /\ UNCHANGED <<config, plugin, inflight, closes, owed, stopped, exhausted>>

\* otherChanged: the new gscoreToken or reconnectInterval differs from the old;
\* the fields of the message handler are sent back as they are
plugin_set_config(c, otherChanged) ==
  LET needsReconnect == otherChanged \/ \E k \in StoredKeys : config[k] # c[k]
      st == IF ~needsReconnect THEN St
            ELSE IF c.gscoreEnable THEN connect(disconnect(St), c)
            ELSE disconnect(St)
  IN /\ config' = c
     /\ Apply(st)
     /\ last' = Obs("set_config", st, FALSE, 0, 0)
     /\ closes' = IF needsReconnect THEN 0 ELSE closes
     /\ owed' = IF needsReconnect THEN FALSE ELSE owed
     /\ stopped' = IF needsReconnect THEN ~c.gscoreEnable ELSE stopped
     /\ exhausted' = IF needsReconnect THEN GaveUp(st, c) ELSE exhausted
     /\ UNCHANGED <<plugin, inflight>>

plugin_on_config_change(key, value) ==
  LET c == IF key \in StoredKeys THEN [config EXCEPT ![key] = value] ELSE config
      st == IF key \notin gscoreKeys THEN St
            ELSE IF c.gscoreEnable THEN connect(disconnect(St), c)
            ELSE disconnect(St)
  IN /\ config' = c
     /\ Apply(st)
     /\ last' = Obs("config_change", st, FALSE, 0, 0)
     /\ closes' = IF key \in gscoreKeys THEN 0 ELSE closes
     /\ owed' = IF key \in gscoreKeys THEN FALSE ELSE owed
     /\ stopped' = IF key \in gscoreKeys THEN ~c.gscoreEnable ELSE stopped
     /\ exhausted' = IF key \in gscoreKeys THEN GaveUp(st, c) ELSE exhausted
     /\ UNCHANGED <<plugin, inflight>>

\* forwardMessage up to its first suspension point or its end
forwardMessage(messageType, hasReply) ==
  /\ IF getStatus(St) # "connected" \/ messageType \notin {"group", "private"}
     THEN /\ last' = Obs("forward", St, FALSE, 0, 0)
          /\ UNCHANGED <<plugin, inflight>>
     ELSE IF hasReply
     THEN /\ inflight < MaxInFlight
          /\ inflight' = inflight + 1
          /\ last' = Obs("forward", St, FALSE, 0, 0)
     ELSE /\ last' = Obs("forward", St, FALSE, IF send(St) = "sent" THEN 1 ELSE 0,
                         IF send(St) = "threw" THEN 1 ELSE 0)
          /\ UNCHANGED <<plugin, inflight>>
  /\ ServiceUnchanged
  /\ UNCHANGED <<config, plugin, closes, owed, stopped, exhausted>>

\* forwardMessage from the return of get_msg (resolved or rejected) to its end
forwardResume ==
  /\ inflight > 0
  /\ inflight' = inflight - 1
  /\ last' = Obs("resume", St, FALSE, IF send(St) = "sent" THEN 1 ELSE 0,
                 IF send(St) = "threw" THEN 1 ELSE 0)
  /\ ServiceUnchanged
  /\ UNCHANGED <<config, plugin, closes, owed, stopped, exhausted>>

Next ==
  \/ Connect
  \/ Disconnect
  \/ \E cur \in BOOLEAN : TransportOpen(cur)
  \/ \E cur \in BOOLEAN : \E rs \in ReadyStates : TransportClose(cur, rs)
  \/ \E cur \in BOOLEAN : TimerFire(cur)
  \/ \E cur \in BOOLEAN : TransportError(cur)
  \/ \E cur \in BOOLEAN : \E frame \in SampleFrames : TransportMessage(cur, frame)
  \/ \E c \in Configs : \E otherChanged \in BOOLEAN : plugin_set_config(c, otherChanged)
  \/ \E value \in BOOLEAN : plugin_on_config_change("gscoreEnable", value)
  \/ \E value \in 0..MaxAttemptsCfg :
       plugin_on_config_change("maxReconnectAttempts", value)
  \/ \E value \in UrlKinds : plugin_on_config_change("gscoreUrl", value)
  \/ \E key \in {"gscoreToken", "reconnectInterval", "commandPrefix"} :
       plugin_on_config_change(key, 0)
  \/ \E messageType \in {"group", "private", "guild"} :
       \E hasReply \in BOOLEAN : forwardMessage(messageType, hasReply)
  \/ forwardResume

Spec == Init /\ [][Next]_vars

\* the event loop runs every timer that stays pending
FairSpec == Spec /\ \A cur \in BOOLEAN : WF_vars(TimerFire(cur))

\* ---------------------------------------------- one frame on a fresh link
\* The state right after the open event of the first socket, and the first
\* frame that arrives on it.
MsgInit ==
  /\ config = [gscoreEnable |-> TRUE, maxReconnectAttempts |-> 0, gscoreUrl |-> "ok"]
  /\ plugin = DefaultPlugin
  /\ ws = "OPEN"
  /\ orphans = [rs \in ReadyStates |-> 0]
  /\ reconnectTimer = "null"
  /\ lostTimers = 0
  /\ isConnecting = FALSE
  /\ reconnectAttempts = 0
  /\ inflight = 0
  /\ last = Obs("open", St, TRUE, 0, 0)
  /\ closes = 0
  /\ owed = FALSE
  /\ stopped = FALSE
  /\ exhausted = FALSE

Fresh == last.op = "open"

\* forwardMessage building the content of the envelope it sends
Encode(event) ==
  /\ last' = [Obs("encode", St, FALSE, 0, 0) EXCEPT
                !.event = event, !.content = convertOB11ToGsCoreContent(event)]
  /\ ServiceUnchanged
  /\ UNCHANGED <<config, plugin, inflight, closes, owed, stopped, exhausted>>

\* handleGsCoreMessage decoding the content of the envelope it was given
Decode(content) ==
  /\ last' = [Obs("decode", St, FALSE, 0, 0) EXCEPT
                !.items = content, !.decoded = convertGsCoreToOB11(content)]
  /\ ServiceUnchanged
  /\ UNCHANGED <<config, plugin, inflight, closes, owed, stopped, exhausted>>

\* forwardMessage from its call to its end, on a link that stays open
ForwardEnvelope(message_type, event, replyMsg) ==
  /\ getStatus(St) = "connected"
  /\ LET envelope == messageReceive(message_type, event, replyMsg) IN
     last' = [Obs("envelope", St, FALSE, IF envelope.sent THEN 1 ELSE 0, 0) EXCEPT
                !.event = event, !.message_type = message_type,
                !.replyMsg = replyMsg, !.envelope = envelope]
  /\ ServiceUnchanged
  /\ UNCHANGED <<config, plugin, inflight, closes, owed, stopped, exhausted>>

MsgNext ==
  \/ Fresh /\ \E frame \in Frames : TransportMessage(TRUE, frame)
  \/ Fresh /\ \E event \in Events : Encode(event)
  \/ Fresh /\ \E content \in DecodeInputs : Decode(content)
  \/ Fresh /\ \E in \in ForwardInputs : ForwardEnvelope(in[1], in[2], in[3])

MsgSpec == MsgInit /\ [][MsgNext]_vars

\* ---------------------------------------------- the first connect()
\* plugin_init calling connect() with a well-formed address configured
UrlInit ==
  /\ config = [gscoreEnable |-> TRUE, maxReconnectAttempts |-> 0, gscoreUrl |-> "ok"]
  /\ plugin = DefaultPlugin
  /\ ws = "null"
  /\ orphans = [rs \in ReadyStates |-> 0]
  /\ reconnectTimer = "null"
  /\ lostTimers = 0
  /\ isConnecting = FALSE
  /\ reconnectAttempts = 0
  /\ inflight = 0
  /\ last = Obs("init", St, FALSE, 0, 0)
  /\ closes = 0
  /\ owed = FALSE
  /\ stopped = FALSE
  /\ exhausted = FALSE

ConnectUrl(gscoreUrl, gscoreToken) ==
  LET st == connect(St, config) IN
  /\ Apply(st)
  /\ last' = [Obs("connect", st, FALSE, 0, 0) EXCEPT
                !.gscoreUrl = gscoreUrl, !.gscoreToken = gscoreToken,
                !.wsUrl = IF st.opens > 0 THEN wsUrl(gscoreUrl, gscoreToken) ELSE <<>>]
  /\ closes' = 0
  /\ owed' = FALSE
  /\ stopped' = FALSE
  /\ exhausted' = GaveUp(st, config)
  /\ UNCHANGED <<config, plugin, inflight>>

UrlNext ==
  last.op = "init" /\ \E gscoreUrl \in GscoreUrls : \E gscoreToken \in GscoreTokens :
                        ConnectUrl(gscoreUrl, gscoreToken)

UrlSpec == UrlInit /\ [][UrlNext]_vars

\* ---------------------------------------------- one message event
\* The plugin with a configuration loaded, and the link open or down.
HandlerInit ==
  /\ config \in {[gscoreEnable |-> e, maxReconnectAttempts |-> 0, gscoreUrl |-> "ok"] :
                    e \in BOOLEAN}
  /\ plugin \in PluginStates
  /\ ws \in {"null", "OPEN"}
  /\ ws = "OPEN" => config.gscoreEnable
  /\ orphans = [rs \in ReadyStates |-> 0]
  /\ reconnectTimer = "null"
  /\ lostTimers = 0
  /\ isConnecting = FALSE
  /\ reconnectAttempts = 0
  /\ inflight = 0
  /\ last = Obs("init", St, FALSE, 0, 0)
  /\ closes = 0
  /\ owed = FALSE
  /\ stopped = FALSE
  /\ exhausted = FALSE

\* plugin_onmessage for a message event, and the forwardMessage call it
\* leads to (for a message without reply segment)
plugin_onmessage(event) ==
  LET h == IF ~plugin.enabled THEN Handled(plugin, <<>>, FALSE)
           ELSE handleMessage(plugin, config, event)
      envelope == IF h.forwarded /\ getStatus(St) = "connected"
                  THEN messageReceive(event.message_type, NoEvent, NoReplyMsg)
                  ELSE NotSent
  IN /\ plugin' = h.p
     /\ last' = [Obs("onmessage", St, FALSE,
                     IF envelope.sent /\ send(St) = "sent" THEN 1 ELSE 0, 0) EXCEPT
                   !.msg = event, !.replies = h.replies, !.forwarded = h.forwarded]
     /\ ServiceUnchanged
     /\ UNCHANGED <<config, inflight, closes, owed, stopped, exhausted>>

HandlerNext == last.op = "init" /\ \E event \in MsgEvents : plugin_onmessage(event)

HandlerSpec == HandlerInit /\ [][HandlerNext]_vars

\* ---------------------------------------------- the blacklist
\* entries of a raw blacklist: the users as strings, and a number
RawItems == {RawItem(TRUE, u) : u \in Users} \cup {RawItem(FALSE, "1")}

RECURSIVE ItemLists(_)
ItemLists(n) ==
  IF n = 0 THEN {<<>>}
  ELSE ItemLists(n - 1)
         \cup {Append(l, it) : l \in {x \in ItemLists(n - 1) : Len(x) = n - 1},
                               it \in RawItems}

RawLists == {RawList(FALSE, <<>>)} \cup {RawList(TRUE, l) : l \in ItemLists(MaxList)}

\* a value that is not an object (null, a number, an array)
NoRaw == RawConfig(FALSE, TRUE, <<>>, [g \in Groups |-> "none"], RawList(FALSE, <<>>))

\* the raw configurations given to replaceConfig or found in the file: the
\* fields as they are with any blacklist, and a value that is not an object
RawConfigs(p) ==
  {RawConfig(TRUE, p.enabled, p.masterQQ, p.groupConfigs, b) : b \in RawLists}
    \cup {NoRaw}

ConfigFiles(p) ==
  {ConfigFile(FALSE, FALSE, NoRaw), ConfigFile(TRUE, FALSE, NoRaw)}
    \cup {ConfigFile(TRUE, TRUE, raw) : raw \in RawConfigs(p)}

\* PluginState as constructed: config = { ...DEFAULT_CONFIG }
BlacklistInit ==
  /\ config = [gscoreEnable |-> FALSE, maxReconnectAttempts |-> 0, gscoreUrl |-> "ok"]
  /\ plugin = [DefaultPlugin EXCEPT !.aliased = TRUE]
  /\ ws = "null"
  /\ orphans = [rs \in ReadyStates |-> 0]
  /\ reconnectTimer = "null"
  /\ lostTimers = 0
  /\ isConnecting = FALSE
  /\ reconnectAttempts = 0
  /\ inflight = 0
  /\ last = Obs("init", St, FALSE, 0, 0)
  /\ closes = 0
  /\ owed = FALSE
  /\ stopped = FALSE
  /\ exhausted = FALSE

\* nothing but the configuration of the plugin changes
BlacklistFrame ==
  /\ ServiceUnchanged
  /\ UNCHANGED <<config, inflight, closes, owed, stopped, exhausted>>

AddToBlacklist(userId) ==
  /\ plugin' = addToBlacklist(plugin, userId)
  /\ last' = [Obs("addToBlacklist", St, FALSE, 0, 0) EXCEPT !.userId = userId]
  /\ BlacklistFrame

RemoveFromBlacklist(userId) ==
  /\ plugin' = removeFromBlacklist(plugin, userId)
  /\ last' = [Obs("removeFromBlacklist", St, FALSE, 0, 0) EXCEPT !.userId = userId]
  /\ BlacklistFrame

\* plugin_set_config: replaceConfig with the configuration sent by the panel
ReplaceConfig(c) ==
  /\ plugin' = replaceConfig(plugin, c)
  /\ last' = Obs("replaceConfig", St, FALSE, 0, 0)
  /\ BlacklistFrame

\* plugin_init: loadConfig with the file as it is on disk
LoadConfig(file) ==
  /\ plugin' = loadConfig(plugin, file)
  /\ last' = Obs("loadConfig", St, FALSE, 0, 0)
  /\ BlacklistFrame

BlacklistNext ==
  \/ \E userId \in Users : AddToBlacklist(userId)
  \/ \E userId \in Users : RemoveFromBlacklist(userId)
  \/ \E c \in RawConfigs(plugin) : ReplaceConfig(c)
  \/ \E file \in ConfigFiles(plugin) : LoadConfig(file)

BlacklistSpec == BlacklistInit /\ [][BlacklistNext]_vars

TypeOK ==
  /\ config \in Configs
  /\ ws \in {"null", "CONNECTING", "OPEN"}
  /\ orphans \in [ReadyStates -> 0..MaxSockets]
  /\ reconnectTimer \in {"null", "pending", "fired"}
  /\ lostTimers \in 0..MaxTimers
  /\ isConnecting \in BOOLEAN
  /\ reconnectAttempts \in 0..AttemptsCap
  /\ inflight \in 0..MaxInFlight
  /\ exhausted \in BOOLEAN
  /\ plugin.enabled \in BOOLEAN
  /\ plugin.masterQQ \in MasterQQs
  /\ plugin.groupConfigs \in [Groups -> {"none", "on", "off"}]
  /\ \A i \in 1..Len(plugin.blacklist) : plugin.blacklist[i] \in Users
  /\ plugin.aliased \in BOOLEAN
  /\ plugin.aliased => plugin.blacklist = plugin.DEFAULT_blacklist
  /\ last.esc \in BOOLEAN
  /\ last.forwarded \in BOOLEAN
  /\ Len(last.calls) <= 1
  /\ \A i \in 1..Len(last.calls) : last.calls[i].action = "send_msg"
  /\ SocketCount(St) <= MaxSockets
  /\ PendingTimers(St) <= MaxTimers

\* ------------------------------------------------------------ properties
\* sockets that are opening or open
LiveSockets ==
  (IF ws # "null" THEN 1 ELSE 0) + orphans["CONNECTING"] + orphans["OPEN"]

BudgetLeft ==
  config.maxReconnectAttempts = 0 \/ reconnectAttempts < config.maxReconnectAttempts

\* the model cannot go on: a counter or a pool of identities is at its bound
Saturated ==
  \/ reconnectAttempts >= AttemptsCap
  \/ SocketCount(St) >= MaxSockets
  \/ PendingTimers(St) >= MaxTimers

\* C1: in every reachable state at most one socket is opening or open.
C1_NoDuplicateSockets == LiveSockets <= 1

\* C2: a connect() call made while getStatus() is connecting or connected
\* constructs no socket and leaves every field of the service unchanged.
C2_ConnectIsNoOp ==
  [][(last'.op = "connect" /\ getStatus(St) \in {"connecting", "connected"})
       => (ServiceUnchanged /\ last'.opens = 0)]_vars

\* C3: between a disconnect() and the next explicit connect() no handler makes
\* a reconnect timer pending and no handler constructs a socket.
C3_StoppedStaysStopped ==
  [][(stopped /\ stopped') => (last'.started = 0 /\ last'.opens = 0)]_vars

\* C4: disconnect() returns with no pending timer, a null handle, zero attempts
\* and status disconnected, and a disconnect() right after it changes nothing.
C4_DisconnectResets ==
  [][last'.op = "disconnect"
       => /\ PendingTimers(St)' = 0
          /\ ws' = "null"
          /\ reconnectAttempts' = 0
          /\ getStatus(St)' = "disconnected"
          /\ last.op = "disconnect" => ServiceUnchanged]_vars

\* C5 as stated: with maxReconnectAttempts = N > 0 and the feature enabled, the
\* N-th consecutive close event (and any later one) schedules no timer.
C5_StopsAfterNCloses ==
  [][(last'.op = "close" /\ config.gscoreEnable
        /\ config.maxReconnectAttempts > 0
        /\ closes' >= config.maxReconnectAttempts)
       => last'.started = 0]_vars

\* C5 amended: with maxReconnectAttempts = N > 0 and the feature enabled, a
\* close event schedules a reconnect timer exactly when reconnectAttempts < N.
C5_StopsAtBudget ==
  [][(last'.op = "close" /\ config.gscoreEnable
        /\ config.maxReconnectAttempts > 0)
       => (last'.started = 0
             <=> reconnectAttempts >= config.maxReconnectAttempts)]_vars

\* the N-th consecutive close has scheduled a timer, the (N+1)-th has not
C5_Witness ==
  /\ last.op = "close"
  /\ config.gscoreEnable
  /\ config.maxReconnectAttempts = MaxAttemptsCfg
  /\ reconnectAttempts = MaxAttemptsCfg
  /\ closes = MaxAttemptsCfg + 1
  /\ last.started = 0
  /\ PendingTimers(St) = 0

\* C6: with maxReconnectAttempts = 0 and the feature enabled every close event
\* schedules a timer, and every such close is eventually followed by the
\* construction of a new socket (unless an explicit call takes over).
C6_NeverStops ==
  /\ [][(last'.op = "close" /\ config.gscoreEnable
           /\ config.maxReconnectAttempts = 0)
          => last'.started = 1]_vars
  /\ (owed /\ ~Saturated) ~> (~owed \/ Saturated)

\* C7: at most one reconnect timer is pending.
C7_OneTimer == PendingTimers(St) <= 1

\* C8: after the open event of the socket this.ws points at, the status is
\* connected, reconnectAttempts is 0 and no reconnect timer is pending.
C8_OpenResets ==
  (last.op = "open" /\ last.cur)
    => (getStatus(St) = "connected" /\ reconnectAttempts = 0
          /\ PendingTimers(St) = 0)

\* C9: a close event of the socket this.ws points at leaves status
\* disconnected and a null handle, calls scheduleReconnect() once, and starts
\* exactly one timer when the feature is enabled and the budget is not
\* exhausted (and none otherwise).
C9_CloseOfCurrent ==
  [][(last'.op = "close" /\ last'.cur)
       => /\ ws' = "null"
          /\ getStatus(St)' = "disconnected"
          /\ last'.scheds = 1
          /\ last'.started = (IF config.gscoreEnable /\ BudgetLeft THEN 1 ELSE 0)
          /\ PendingTimers(St)' = PendingTimers(St) + last'.started]_vars

\* the current socket closed while another timer was already pending
C9_Witness ==
  /\ last.op = "close"
  /\ last.cur
  /\ last.scheds = 1
  /\ last.started = 1
  /\ PendingTimers(St) = 2

\* C10: a forward writes a frame only while the status is connected, and in
\* any other status it writes nothing and raises no error.
C10_SendOnlyConnected ==
  last.op \in {"forward", "resume"}
    => /\ last.sent = 1 => getStatus(St) = "connected"
       /\ getStatus(St) # "connected" => (last.sent = 0 /\ last.err = 0)

\* C11: a frame that is not valid JSON changes no field of the service and
\* not its status, schedules no reconnect, issues no platform call and raises
\* nothing out of the message handler.
C11_BadJsonDiscarded ==
  [][(last'.op = "message" /\ last'.frame.json = "invalid")
       => /\ ServiceUnchanged
          /\ getStatus(St)' = getStatus(St)
          /\ last'.scheds = 0
          /\ last'.started = 0
          /\ last'.calls = <<>>
          /\ ~last'.esc]_vars

\* text that is not JSON has arrived on the open socket while a reconnect
\* timer was pending
C11_Witness ==
  /\ last.op = "message"
  /\ last.frame.json = "invalid"
  /\ last.cur
  /\ getStatus(St) = "connected"
  /\ PendingTimers(St) > 0

\* C12: once scheduleReconnect() has given up at the attempt limit, and until
\* the next explicit call, the status is disconnected, no reconnect timer is
\* pending and no handler constructs a socket.
C12_StaysExhausted ==
  /\ [](exhausted => (getStatus(St) = "disconnected" /\ PendingTimers(St) = 0))
  /\ [][(exhausted /\ exhausted') => (last'.opens = 0 /\ last'.started = 0)]_vars

\* C13: a handler that ends with gscoreEnable false starts no reconnect timer
\* and constructs no socket, and a connect() made while it is false (directly
\* or from a timer callback) leaves the status disconnected.
C13_DisabledIsInert ==
  [][~config'.gscoreEnable
       => /\ last'.started = 0
          /\ last'.opens = 0
          /\ last'.op \in {"connect", "timer"}
               => getStatus(St)' = "disconnected"]_vars

\* a reconnect timer has fired after the feature was disabled, while a socket
\* of an earlier connection was still alive
C13_Witness ==
  /\ ~config.gscoreEnable
  /\ last.op = "timer"
  /\ OrphanCount(St) > 0
  /\ getStatus(St) = "disconnected"

\* C14: when a configuration hook changes gscoreUrl, gscoreEnable or
\* maxReconnectAttempts, then afterwards the only pending timers and live
\* sockets are those the hook itself started; with gscoreEnable true
\* reconnectAttempts is 0 and, for a well-formed URL, exactly one socket has
\* been constructed; with gscoreEnable false the status is disconnected and
\* nothing is pending or live.
C14_HookReconnects ==
  [][(last'.op \in {"set_config", "config_change"} /\ config' # config)
       => /\ PendingTimers(St)' = last'.started
          /\ LiveSockets' = last'.opens
          /\ config'.gscoreEnable
               => /\ reconnectAttempts' = 0
                  /\ config'.gscoreUrl = "ok" => last'.opens = 1
          /\ ~config'.gscoreEnable
               => /\ getStatus(St)' = "disconnected"
                  /\ last'.started = 0
                  /\ last'.opens = 0]_vars

\* C28: whenever the status is connecting a socket is being opened, and a
\* connect() made while disconnected with an address that cannot be opened
\* (malformed, or refused by the WebSocket constructor) leaves the status
\* disconnected and calls scheduleReconnect() once.
C28_ConnectingMeansInFlight ==
  /\ [](getStatus(St) = "connecting"
          => (ws = "CONNECTING" \/ orphans["CONNECTING"] > 0))
  /\ [][(last'.op = "connect" /\ getStatus(St) = "disconnected"
           /\ config.gscoreEnable /\ config.gscoreUrl \in {"malformed", "badproto"})
          => (getStatus(St)' = "disconnected" /\ last'.scheds = 1)]_vars

\* C29: with maxReconnectAttempts > 0, reconnectAttempts never exceeds it.
\* reconnectAttempts is incremented by every timer callback and reset only by
\* an open event and by disconnect(), so it is also the number of timers that
\* have fired since the last open (or the last explicit stop).
C29_AttemptsBounded ==
  config.maxReconnectAttempts > 0
    => reconnectAttempts <= config.maxReconnectAttempts

\* C30: an error event of a socket changes no field of the service and not
\* its status, and schedules nothing: no scheduleReconnect() call, no timer,
\* no socket.  (The close event that follows it is what schedules.)
C30_ErrorChangesNothing ==
  [][last'.op = "error"
       => /\ ServiceUnchanged
          /\ getStatus(St)' = getStatus(St)
          /\ last'.scheds = 0
          /\ last'.started = 0
          /\ last'.opens = 0]_vars

\* the socket being opened has reported an error and nothing is scheduled yet
C30_Witness ==
  /\ last.op = "error"
  /\ last.cur
  /\ ws = "CONNECTING"
  /\ getStatus(St) = "connecting"
  /\ config.gscoreEnable
  /\ PendingTimers(St) = 0

\* ----------------------------------------------- properties of one frame
\* the last handler was given a JSON object whose content is a non-empty array
GotContent ==
  /\ last.op = "message"
  /\ last.frame.json = "object"
  /\ last.frame.msgSend.content.tag = "list"
  /\ last.frame.msgSend.content.list # <<>>

GotItems == last.frame.msgSend.content.list

\* the first letter of the item's type is log_
LogItem(msg) == ~msg.nil /\ msg.type # <<>> /\ msg.type[1] = "log_"

NoTarget(msgSend) == msgSend.target_id.tag = "nil" \/ msgSend.target_id.str = <<>>

\* C15: an envelope whose first content item has a type starting with log_
\* issues no platform call, whatever follows the item and whatever target_type
\* and target_id are.
C15_LogNeverSent ==
  (GotContent /\ LogItem(GotItems[1])) => last.calls = <<>>

\* a log item followed by a text item, addressed to a user
C15_Witness ==
  /\ GotContent
  /\ LogItem(GotItems[1])
  /\ Len(GotItems) = 2
  /\ GotItems[2] = Item(S("text"), Str(S("a")))
  /\ last.frame.msgSend.target_type = Str(S("direct"))
  /\ ~NoTarget(last.frame.msgSend)
  /\ last.calls = <<>>

\* the envelope C16 speaks of: non-log content, a target_id and a target_type
Deliverable ==
  /\ GotContent
  /\ ~LogItem(GotItems[1])
  /\ ~NoTarget(last.frame.msgSend)
  /\ last.frame.msgSend.target_type.tag # "nil"

\* one call: a private send to target_id for direct, a group send otherwise
OneSendTo(msgSend, calls) ==
  /\ Len(calls) = 1
  /\ calls[1].action = "send_msg"
  /\ IF msgSend.target_type.str = S("direct")
     THEN /\ calls[1].message_type = "private"
          /\ calls[1].target = [user_id |-> msgSend.target_id.str]
     ELSE /\ calls[1].message_type = "group"
          /\ calls[1].target = [group_id |-> msgSend.target_id.str]

\* C16 as stated: an envelope with non-log content, a target_id and a non-null
\* target_type issues exactly one send call, private for direct and group
\* for every other target_type.
C16_ExactlyOneSend ==
  Deliverable => OneSendTo(last.frame.msgSend, last.calls)

\* C16 amended: such an envelope issues that one send call, carrying the
\* decoded segments, when its content decodes to at least one segment, and no
\* call when the content decodes to nothing or the decoding fails.
C16_OneSendIfDecoded ==
  Deliverable
    => LET ob11Message == convertGsCoreToOB11(GotItems) IN
       IF ob11Message.threw \/ ob11Message.segs = <<>>
       THEN last.calls = <<>>
       ELSE /\ OneSendTo(last.frame.msgSend, last.calls)
            /\ last.calls[1].message = ob11Message.segs

\* an ignored item and a text item for a channel: one group send of one segment
C16_Witness ==
  /\ Deliverable
  /\ GotItems = <<Item(S("image_size"), Str(S("a"))), Item(S("text"), Str(S("b")))>>
  /\ last.frame.msgSend.target_type = Str(S("channel"))
  /\ Len(last.calls) = 1
  /\ last.calls[1].message_type = "group"
  /\ last.calls[1].message = <<Seg("text", "text", S("b"))>>

\* C17: an envelope whose content is null or empty, or whose target_id is
\* missing, issues no platform call and leaves the service and its status as
\* they were.
C17_DroppedEnvelope ==
  [][(/\ last'.op = "message"
      /\ last'.frame.json = "object"
      /\ \/ last'.frame.msgSend.content.tag = "nil"
         \/ last'.frame.msgSend.content.list = <<>>
         \/ NoTarget(last'.frame.msgSend))
       => /\ last'.calls = <<>>
          /\ ServiceUnchanged
          /\ getStatus(St)' = getStatus(St)]_vars

\* two text items addressed to nobody have been dropped
C17_Witness ==
  /\ GotContent
  /\ GotItems = <<Item(S("text"), Str(S("a"))), Item(S("text"), Str(S("b")))>>
  /\ last.frame.msgSend.target_type = Str(S("group"))
  /\ last.frame.msgSend.target_id = Nil
  /\ last.calls = <<>>
  /\ getStatus(St) = "connected"

\* some item of the content, or some sub-item of a node, is JSON null
RECURSIVE HasNull(_)
HasNull(content) ==
  \E i \in 1..Len(content) :
    \/ content[i].nil
    \/ content[i].data.tag = "list" /\ HasNull(content[i].data.list)

\* the content without its null items and null sub-items
RECURSIVE WithoutNull(_)
WithoutNull(content) ==
  IF content = <<>> THEN <<>>
  ELSE LET msg == Head(content) IN
       (IF msg.nil THEN <<>>
        ELSE IF msg.data.tag = "list"
        THEN <<[msg EXCEPT !.data.list = WithoutNull(@)]>>
        ELSE <<msg>>)
       \o WithoutNull(Tail(content))

\* C18: when items of the content are null, the handler raises nothing and
\* issues the calls it issues for the same envelope without those items.
C18_OnlyFaultyItemDropped ==
  (GotContent /\ HasNull(GotItems))
    => /\ ~last.esc
       /\ last.calls =
            onMessage([last.frame EXCEPT
                         !.msgSend.content.list = WithoutNull(@)]).calls

\* every segment of the message is a text segment that carries a string
TextOnly(message) ==
  \A i \in 1..Len(message) :
    /\ message[i].type = S("text")
    /\ "text" \in DOMAIN message[i].data
    /\ message[i].data.text.tag = "str"

\* C19: the content encoded from a sequence of text segments decodes to text
\* segments of the same number, with the same text in the same order.
C19_TextRoundTrip ==
  (last.op = "encode" /\ last.event.isArray /\ TextOnly(last.event.message))
    => LET decoded == convertGsCoreToOB11(last.content) IN
       /\ ~decoded.threw
       /\ Len(decoded.segs) = Len(last.event.message)
       /\ \A i \in 1..Len(decoded.segs) :
            decoded.segs[i] =
              Seg("text", "text", last.event.message[i].data.text.str)

\* an empty text followed by a text that looks like a link
C19_Witness ==
  /\ last.op = "encode"
  /\ last.event.isArray
  /\ last.event.message = <<OB11Seg(S("text"), [text |-> Str(<<>>)]),
                            OB11Seg(S("text"), [text |-> Str(<<"link://", "a">>)])>>
  /\ convertGsCoreToOB11(last.content).segs =
       <<Seg("text", "text", <<>>), Seg("text", "text", <<"link://", "a">>)>>

\* the content is one node item with at least one sub-item, and it has a target
GotNode ==
  /\ Deliverable
  /\ Len(GotItems) = 1
  /\ GotItems[1].type = S("node")
  /\ GotItems[1].data.tag = "list"
  /\ GotItems[1].data.list # <<>>

GotSubItems == GotItems[1].data.list

\* the segments the i-th sub-item decodes to on its own
SubDecoded(i) == convertGsCoreToOB11(<<GotSubItems[i]>>)

\* C20 as stated: a node item with n sub-items is delivered as n node
\* segments, the i-th wrapping the decoded segments of the i-th sub-item.
C20_OneNodePerSubItem ==
  GotNode
    => /\ Len(last.calls) = 1
       /\ last.calls[1].message =
            [i \in 1..Len(GotSubItems) |-> NodeSeg(SubDecoded(i).segs)]

\* the positions of the sub-items that decode to at least one segment
RECURSIVE Kept(_)
Kept(n) ==
  IF n = 0 THEN <<>>
  ELSE Kept(n - 1) \o (IF SubDecoded(n).segs # <<>> THEN <<n>> ELSE <<>>)

\* C20 amended: when no sub-item is null, the node item is delivered as one
\* node segment per sub-item that decodes to at least one segment, in the
\* sub-items' order, each wrapping the decoded segments of its sub-item;
\* nothing is delivered when no sub-item decodes to anything or one is null.
C20_OneNodePerDecodedSubItem ==
  GotNode
    => LET kept == Kept(Len(GotSubItems)) IN
       IF kept = <<>> \/ \E i \in 1..Len(GotSubItems) : SubDecoded(i).threw
       THEN last.calls = <<>>
       ELSE /\ Len(last.calls) = 1
            /\ last.calls[1].message =
                 [j \in 1..Len(kept) |-> NodeSeg(SubDecoded(kept[j]).segs)]

\* a node of two texts has been delivered as two node segments
C20_Witness ==
  /\ GotNode
  /\ GotSubItems = <<Item(S("text"), Str(S("a"))), Item(S("text"), Str(S("b")))>>
  /\ Len(last.calls) = 1
  /\ last.calls[1].message =
       <<NodeSeg(<<Seg("text", "text", S("a"))>>),
         NodeSeg(<<Seg("text", "text", S("b"))>>)>>

\* ------------------------------------------------ properties of one item
\* the decoder was given one item of the given kind with a string payload
GotItem(type) ==
  /\ last.op = "decode"
  /\ Len(last.items) = 1
  /\ last.items[1].type = S(type)
  /\ last.items[1].data.tag = "str"

GotPayload == last.items[1].data.str

HasBar(s) == \E i \in 1..Len(s) : s[i] = "|"

\* the position of the first | of s
FirstBar(s) == CHOOSE i \in 1..Len(s) : s[i] = "|" /\ \A j \in 1..(i - 1) : s[j] # "|"

\* C21: a file item whose payload has no | decodes to nothing; otherwise the
\* payload is split at its first | into name and remainder and decodes to one
\* text segment: the label of the name followed by a space and the remainder
\* without link:// when the remainder starts with link://, and the label of the
\* name alone for any other remainder.
C21_FileSplit ==
  GotItem("file")
    => /\ ~last.decoded.threw
       /\ IF ~HasBar(GotPayload) THEN last.decoded.segs = <<>>
          ELSE LET i == FirstBar(GotPayload)
                   name == SubSeq(GotPayload, 1, i - 1)
                   remainder == SubSeq(GotPayload, i + 1, Len(GotPayload))
               IN IF remainder # <<>> /\ remainder[1] = "link://"
                  THEN last.decoded.segs =
                         <<Seg("text", "text",
                               S("[file: ") \o name \o S("]") \o S(" ")
                                 \o Tail(remainder))>>
                  ELSE last.decoded.segs =
                         <<Seg("text", "text", S("[file: ") \o name \o S("]"))>>

\* C22: an image item decodes to exactly one image segment whose file is the
\* payload without its leading link:// when it starts with link://, and the
\* payload itself when it starts with base64://, http or anything else.
C22_ImageFile ==
  GotItem("image")
    => /\ ~last.decoded.threw
       /\ last.decoded.segs =
            <<Seg("image", "file",
                  IF GotPayload # <<>> /\ GotPayload[1] = "link://"
                  THEN Tail(GotPayload) ELSE GotPayload)>>

\* link://http... has been decoded to an image segment of http...
C22_Witness ==
  /\ GotItem("image")
  /\ GotPayload = <<"link://", "http", "n">>
  /\ last.decoded.segs = <<Seg("image", "file", <<"http", "n">>)>>

\* ----------------------------------------- properties of one forwarded event
\* C23 as stated: a group message without structured segments and with
\* raw_message r is sent upstream as user_type group with the one text item r
\* as its content.
C23_RawFallback ==
  (/\ last.op = "envelope"
   /\ last.message_type = "group"
   /\ ~last.event.isArray \/ last.event.message = <<>>)
    => last.envelope =
         Sent("group", <<Item(S("text"), Str(last.event.raw_message))>>)

\* C23 amended: a group message whose message field is not an array is sent
\* upstream as user_type group; its content is the one text item r when
\* raw_message r is not empty and no item when it is empty.  A group message
\* whose message field is an empty array is sent with no item, whatever its
\* raw_message is.
C23_RawFallbackIfNoArray ==
  (last.op = "envelope" /\ last.message_type = "group")
    => /\ ~last.event.isArray
            => last.envelope =
                 Sent("group",
                      IF last.event.raw_message # <<>>
                      THEN <<Item(S("text"), Str(last.event.raw_message))>>
                      ELSE <<>>)
       /\ (last.event.isArray /\ last.event.message = <<>>)
            => last.envelope = Sent("group", <<>>)

\* hello, without a message array, has been sent as one text item
C23_Witness ==
  /\ last.op = "envelope"
  /\ last.message_type = "group"
  /\ ~last.event.isArray
  /\ last.event.raw_message = S("hello")
  /\ last.sent = 1
  /\ last.envelope = Sent("group", <<Item(S("text"), Str(S("hello")))>>)

\* the event has a reply segment, and the first one carries an id to look up
GotReply ==
  /\ last.op = "envelope"
  /\ last.message_type \in {"group", "private"}
  /\ last.event.isArray
  /\ \E i \in 1..Len(last.event.message) :
       /\ last.event.message[i].type = S("reply")
       /\ \A j \in 1..(i - 1) : last.event.message[j].type # S("reply")
       /\ "id" \in DOMAIN last.event.message[i].data
       /\ last.event.message[i].data.id.str # <<>>

\* the lookup gave back a message with an array of segments
GotQuoted == last.replyMsg.ok /\ last.replyMsg.isArray

\* the address of a quoted segment: its url attribute, else its file attribute
QuotedUrl(seg) ==
  IF "url" \in DOMAIN seg.data /\ seg.data.url # Str(<<>>) THEN seg.data.url
  ELSE IF "file" \in DOMAIN seg.data THEN seg.data.file
  ELSE Nil

\* the quoted segments that are images with an address that is a string and
\* not blank, as image items of the address without surrounding blanks
RECURSIVE QuotedItems(_, _)
QuotedItems(message, n) ==
  IF n = 0 THEN <<>>
  ELSE LET url == QuotedUrl(message[n])
           bare == TrimEnd(TrimStart(url.str))
       IN QuotedItems(message, n - 1)
            \o (IF message[n].type = S("image") /\ url.tag = "str" /\ bare # <<>>
                THEN <<Item(S("image"), Str(bare))>> ELSE <<>>)

\* C24: a message with a reply segment is sent upstream with the plain
\* encoding of its own segments followed, in order, by one image item per
\* image segment of the quoted message whose trimmed address is not empty; when
\* the lookup of the quoted message fails it is still sent, with exactly the
\* plain encoding.
C24_ReplyEnrichment ==
  GotReply
    => /\ last.envelope.sent
       /\ last.sent = 1
       /\ last.envelope.content =
            convertSegs(last.event.message)
              \o (IF GotQuoted
                  THEN QuotedItems(last.replyMsg.message, Len(last.replyMsg.message))
                  ELSE <<>>)

\* a text and a reply whose quoted message has an image to trim after a blank one
C24_Witness ==
  /\ GotReply
  /\ GotQuoted
  /\ Len(last.event.message) = 2
  /\ last.replyMsg.message =
       <<OB11Seg(S("image"), [url |-> Str(S(" ")), file |-> Str(S("f"))]),
         OB11Seg(S("image"), [url |-> Str(<<" ", "v", " ">>)])>>
  /\ last.envelope.content =
       <<Item(S("text"), Str(S("a"))), Item(S("reply"), Str(S("7"))),
         Item(S("image"), Str(S("v")))>>

\* ------------------------------------------- properties of the opened URL
\* connect() has opened a socket for a configured address
GotUrl == last.op = "connect" /\ last.opens = 1 /\ last.gscoreUrl # <<>>

\* the address without one slash at its end
Stripped(url) == IF Last(url) = "/" THEN SubSeq(url, 1, Len(url) - 1) ELSE url

\* the part of the address between its authority and its query
PathOf(url) ==
  IF \E i \in 1..Len(url) : url[i] = "?"
  THEN SubSeq(url, 2, (CHOOSE i \in 1..Len(url) :
                         url[i] = "?" /\ \A j \in 1..(i - 1) : url[j] # "?") - 1)
  ELSE SubSeq(url, 2, Len(url))

\* the query of the address, from its ? on
QueryOf(url) == SubSeq(url, 2 + Len(PathOf(url)), Len(url))

\* C25: the address opened is the configured one without one slash at its
\* end, with /ws/napcat appended to its path when the path has no /ws/, and
\* with token=<value> added to its query when a token is configured and the
\* query has no token parameter; nothing else is changed.
C25_DerivedUrl ==
  GotUrl
    => LET url == Stripped(last.gscoreUrl)
           path == IF \E i \in 1..(Len(PathOf(url)) - 2) :
                        SubSeq(PathOf(url), i, i + 2) = <<"/", "ws", "/">>
                   THEN PathOf(url)
                   ELSE PathOf(url) \o <<"/", "ws", "/", "napcat">>
           query == IF last.gscoreToken = <<>>
                         \/ \E i \in 1..Len(QueryOf(url)) : QueryOf(url)[i] = "token="
                    THEN QueryOf(url)
                    ELSE (IF QueryOf(url) = <<>> THEN S("?") ELSE QueryOf(url) \o S("&"))
                           \o S("token=") \o last.gscoreToken
       IN last.wsUrl = <<url[1]>> \o path \o query

\* --------------------------------------- properties of one message event
\* C26: a message event whose sender is on the blacklist when it is handled
\* does not reach forwardMessage and puts no frame on the link, whatever its
\* kind, the group's setting and the state of the link are.
C26_BlacklistedNotForwarded ==
  [][(last'.op = "onmessage"
        /\ \E i \in 1..Len(plugin.blacklist) : plugin.blacklist[i] = last'.msg.user_id)
       => (~last'.forwarded /\ last'.sent = 0)]_vars

\* a blocked user has written to an enabled group while the link was open
C26_Witness ==
  /\ last.op = "onmessage"
  /\ last.msg = MsgEvent(S("hello"), "group", "g1", "u2", "member", <<>>)
  /\ plugin.blacklist = <<"u1", "u2">>
  /\ plugin.groupConfigs["g1"] = "on"
  /\ config.gscoreEnable
  /\ getStatus(St) = "connected"
  /\ ~last.forwarded
  /\ last.sent = 0

\* an administrative command has been handled in a group
GotAdminCommand ==
  /\ last.op = "onmessage"
  /\ plugin.enabled
  /\ last.msg.message_type = "group"
  /\ last.msg.group_id # ""
  /\ Len(last.msg.raw_message) = 2
  /\ last.msg.raw_message[2] \in
       {"group-on", "group-enable", "group-off", "group-disable", "block", "unblock"}

\* the ids written in masterQQ, between its commas and blanks
Listed(masterQQ) == {masterQQ[i] : i \in 1..Len(masterQQ)} \ {",", " "}

\* C27: an administrative command sent in a group is carried out exactly for
\* the users listed in masterQQ (one id, or several separated by commas) when
\* masterQQ lists any, and exactly for group owners and admins when it is empty.
C27_MasterList ==
  GotAdminCommand
    => (last.replies # <<"denied">>
          <=> IF Listed(plugin.masterQQ) # {}
              THEN last.msg.user_id \in Listed(plugin.masterQQ)
              ELSE last.msg.role \in {"admin", "owner"})

\* the blacklist holds a user at two places
Twice(list) == \E i, j \in 1..Len(list) : i # j /\ list[i] = list[j]

\* C31: whatever addToBlacklist, removeFromBlacklist, replaceConfig and
\* loadConfig calls have been made, the blacklist holds no user twice, and
\* right after removeFromBlacklist(u) the user u is not in the blacklist.
C31_NoUserTwice ==
  /\ ~Twice(plugin.blacklist)
  /\ last.op = "removeFromBlacklist"
       => \A i \in 1..Len(plugin.blacklist) : plugin.blacklist[i] # last.userId

====
